---- MODULE Spec2Model ----
(***************************************************************************)
(* mqtt-actor: the script engine (src/script.rs), the event bus and the    *)
(* tasks that share it (src/main.rs, src/tick.rs, src/processing.rs,       *)
(* src/mqtt.rs, src/file_watch.rs).                                        *)
(*                                                                         *)
(* Time is counted in whole seconds.  The clock `now` is what script.rs's  *)
(* now() reads; it never runs backwards.                                   *)
(***************************************************************************)
EXTENDS Integers, Sequences, FiniteSets, TLC

VARIABLES
    now,          \* the wall clock read by now()
    script,       \* the Script owned by the processing task
    batches,      \* history: the non-empty poll results since the timeline was loaded
    load_cursor,  \* history: last_poll_time when the timeline was loaded
    input,        \* history: what glob found at the last reload
    op,           \* history: the last operation
    bus,          \* the events the broadcast channel still holds, oldest first
    backlog,      \* for each subscriber, the events sent that it has not received
    pc,           \* where each task is
    tick_wake,    \* the instant at which the sleep of the tick task ends
    attempt,      \* try_reconnect's loop index
    joined,       \* the task handles main has awaited
    watched,      \* the events the file watcher has sent
    exit_sent,    \* history: an Exit has been broadcast
    exhausted,    \* history: a reconnect sequence ran out of attempts
    reloaded,     \* history: a ReloadScript has been handled
    published     \* history: the messages handed to try_publish, in order

engine == <<script, batches, load_cursor, input, op>>

system == <<bus, backlog, pc, tick_wake, attempt, joined, watched,
            exit_sent, exhausted, reloaded, published>>

vars == <<now, engine, system>>

----------------------------------------------------------------------------
(* Bounds of the model *)

\* the clock runs from 0 to MaxTime
MaxTime == 3
\* rows of one script file
MaxRows == 3
\* seconds that may pass while one script file is read
MaxLoadDelay == 1

----------------------------------------------------------------------------
(* Timestamp (script.rs 23-62) *)

Absolute(t) == [kind |-> "Absolute", v |-> t]

Relative(d) == [kind |-> "Relative", v |-> d]

\* A timestamp field of a row is a string; what matters of it is which of the
\* three parsers accepts it and the value that parser reads.
Field(fmt, v) == [fmt |-> fmt, v |-> v]

\* Timestamp::from_str: RFC 2822, then RFC 3339, then an integer of seconds.
from_str(s) ==
    IF s.fmt = "rfc2822" THEN [ok |-> TRUE, t |-> Absolute(s.v)]
    ELSE IF s.fmt = "rfc3339" THEN [ok |-> TRUE, t |-> Absolute(s.v)]
    ELSE IF s.fmt = "int" THEN [ok |-> TRUE, t |-> Relative(s.v)]
    ELSE [ok |-> FALSE, t |-> Relative(0)]

----------------------------------------------------------------------------
(* load_messages (script.rs 102-131) *)

\* A row of a script file: its number of fields and the three fields.
Row(cols, ts, topic, message) ==
    [cols |-> cols, ts |-> ts, topic |-> topic, message |-> message]

\* The csv reader (not flexible) refuses a record whose number of fields differs
\* from the first record's; a Message needs three fields and a timestamp that
\* from_str accepts.
Deserializes(rows, i) ==
    /\ rows[i].cols = rows[1].cols
    /\ rows[i].cols = 3
    /\ from_str(rows[i].ts).ok

RECURSIVE Resolve_keeps_reference(_, _, _)
\* A loader whose reference instant is not moved by a relative row.
Resolve_keeps_reference(rows, i, offset_time) ==
    IF i > Len(rows) THEN <<>>
    ELSE IF ~Deserializes(rows, i) THEN Resolve_keeps_reference(rows, i + 1, offset_time)
    ELSE LET ts == from_str(rows[i].ts).t
             msg_time == IF ts.kind = "Absolute" THEN ts.v ELSE offset_time + ts.v
         IN  <<[timestamp |-> Absolute(msg_time),
                topic |-> rows[i].topic,
                message |-> rows[i].message]>>
             \o Resolve_keeps_reference(rows, i + 1,
                                        IF ts.kind = "Absolute" THEN msg_time ELSE offset_time)

RECURSIVE Resolve(_, _, _)
\* The filter_map and the map of load_messages from row i on, offset_time being
\* the running reference instant.
Resolve(rows, i, offset_time) ==
    IF i > Len(rows) THEN <<>>
    ELSE IF ~Deserializes(rows, i) THEN Resolve(rows, i + 1, offset_time)
    ELSE LET ts == from_str(rows[i].ts).t
             msg_time == IF ts.kind = "Absolute" THEN ts.v ELSE offset_time + ts.v
         IN  <<[timestamp |-> Absolute(msg_time),
                topic |-> rows[i].topic,
                message |-> rows[i].message]>>
             \o Resolve(rows, i + 1, msg_time)

\* load_messages(delimiter, reader), called when now() reads `at`.
load_messages(rows, at) == Resolve(rows, 1, at)

----------------------------------------------------------------------------
(* Script (script.rs 133-220) *)

\* The comparator of reload's sort_by: -1 less, 0 equal, 1 greater.
Cmp(a, b) ==
    IF a.timestamp.kind = "Absolute" /\ b.timestamp.kind = "Absolute"
    THEN IF a.timestamp.v < b.timestamp.v THEN -1
         ELSE IF a.timestamp.v > b.timestamp.v THEN 1 ELSE 0
    ELSE 0

RECURSIVE Insert_before_equal(_, _)
\* m put in front of the elements that compare equal to it: a sort that is not
\* stable.
Insert_before_equal(s, m) ==
    IF s = <<>> THEN <<m>>
    ELSE IF Cmp(s[Len(s)], m) < 0 THEN Append(s, m)
    ELSE Append(Insert_before_equal(SubSeq(s, 1, Len(s) - 1), m), s[Len(s)])

RECURSIVE Insert(_, _)
\* m put into the sorted sequence s behind every element that is not greater.
Insert(s, m) ==
    IF s = <<>> THEN <<m>>
    ELSE IF Cmp(s[Len(s)], m) <= 0 THEN Append(s, m)
    ELSE Append(Insert(SubSeq(s, 1, Len(s) - 1), m), s[Len(s)])

RECURSIVE SortFrom(_, _, _)
SortFrom(s, i, acc) ==
    IF i > Len(s) THEN acc ELSE SortFrom(s, i + 1, Insert(acc, s[i]))

\* sort_by left out: the messages stay in the order the files gave them.
sort_by_skipped(s) == s

\* Vec::sort_by: a stable sort.
sort_by(s) == SortFrom(s, 1, <<>>)

RECURSIVE LoadAll(_, _)
\* The filter_map, flatten and collect of reload over the glob results from
\* entry i on: an Err entry and a file that does not open give nothing.
LoadAll(entries, i) ==
    IF i > Len(entries) THEN <<>>
    ELSE (IF entries[i].res = "Ok" /\ entries[i].open
          THEN load_messages(entries[i].rows, entries[i].at)
          ELSE <<>>)
         \o LoadAll(entries, i + 1)

\* reload that starts from a fresh cursor.
reload_resets_cursor(self, g) ==
    IF ~g.pattern_ok
    THEN [ok |-> FALSE, self |-> self]
    ELSE [ok |-> TRUE,
          self |-> [messages |-> sort_by(LoadAll(g.entries, 1)), last_poll_time |-> 0]]

\* reload that moves the cursor to the instant of the load.
reload_moves_cursor(self, g) ==
    IF ~g.pattern_ok
    THEN [ok |-> FALSE, self |-> self]
    ELSE [ok |-> TRUE,
          self |-> [messages |-> sort_by(LoadAll(g.entries, 1)),
                    last_poll_time |-> IF g.entries = <<>> THEN self.last_poll_time
                                       ELSE g.entries[1].at]]

\* reload that empties the timeline before it knows that glob accepts the pattern.
reload_clears_first(self, g) ==
    IF ~g.pattern_ok
    THEN [ok |-> FALSE, self |-> [self EXCEPT !.messages = <<>>]]
    ELSE [ok |-> TRUE,
          self |-> [self EXCEPT !.messages = sort_by(LoadAll(g.entries, 1))]]

\* Script::reload.  g is what glob finds: whether the pattern is accepted, and
\* the entries it yields, each with the instant at which it is loaded.
reload(self, g) ==
    IF ~g.pattern_ok
    THEN [ok |-> FALSE, self |-> self]
    ELSE [ok |-> TRUE,
          self |-> [self EXCEPT !.messages = sort_by(LoadAll(g.entries, 1))]]

\* Script::new, now() reading t: the first reload's error is only logged.
new(g, t) == reload([messages |-> <<>>, last_poll_time |-> t], g).self

\* poll whose window is closed at its start: [start, end].
poll_closed_start(self, end) ==
    LET start == self.last_poll_time
        due(m) == /\ m.timestamp.kind = "Absolute"
                  /\ m.timestamp.v >= start
                  /\ m.timestamp.v <= end
    IN  [msgs |-> SelectSeq(self.messages, due),
         self |-> [self EXCEPT !.last_poll_time = end]]

\* poll that leaves the cursor where it was.
poll_keeps_cursor(self, end) ==
    LET start == self.last_poll_time
        due(m) == /\ m.timestamp.kind = "Absolute"
                  /\ m.timestamp.v > start
                  /\ m.timestamp.v <= end
    IN  [msgs |-> SelectSeq(self.messages, due), self |-> self]

\* Script::poll, now() reading end.
poll(self, end) ==
    LET start == self.last_poll_time
        due(m) == /\ m.timestamp.kind = "Absolute"
                  /\ m.timestamp.v > start
                  /\ m.timestamp.v <= end
    IN  [msgs |-> SelectSeq(self.messages, due),
         self |-> [self EXCEPT !.last_poll_time = end]]

----------------------------------------------------------------------------
(* What the loader can find under the root directory *)

\* The timestamp fields the rows are written with.
Fields ==
    { Field("rfc3339", 1), Field("int", 1) }

\* A row is written with three fields, or with two (malformed).
RowKinds ==
    { [cols |-> 3, ts |-> f] : f \in Fields }

\* The contents a script file can have; its rows are told apart by the file (the
\* topic) and by their place in it (the payload).
FileRows(f) ==
    UNION { { [k \in 1..n |-> Row(rk[k].cols, rk[k].ts, f, k)] : rk \in [1..n -> RowKinds] }
            : n \in 0..MaxRows }

\* What glob yields for one path: an error, a file that does not open, a file.
Entries(f) ==
    { [res |-> "Err", open |-> FALSE, rows |-> <<>>],
      [res |-> "Ok", open |-> FALSE, rows |-> <<>>] }
    \cup { [res |-> "Ok", open |-> TRUE, rows |-> rows] : rows \in FileRows(f) }

\* The root directories with up to n paths.
Dirs(n) ==
    UNION { { d \in [1..k -> UNION { Entries(f) : f \in 1..n }] :
                \A i \in 1..k : d[i] \in Entries(i) }
            : k \in 0..n }

RECURSIVE SumTo(_, _)
SumTo(delays, i) == IF i = 0 THEN 0 ELSE delays[i] + SumTo(delays, i - 1)

\* The glob results, over a root directory with up to n paths, of a reload that
\* starts when the clock reads t: entry i is loaded when the clock reads at,
\* later by the time the entries before it took.
GlobsOver(n, t) ==
    { [pattern_ok |-> FALSE, entries |-> <<>>] }
    \cup { [pattern_ok |-> TRUE,
            entries |-> [i \in 1..Len(x[1]) |->
                           [res |-> x[1][i].res, open |-> x[1][i].open,
                            rows |-> x[1][i].rows, at |-> t + SumTo(x[2], i)]]]
           : x \in { y \in Dirs(n) \X UNION { [1..k -> 0..MaxLoadDelay] : k \in 0..n } :
                       /\ Len(y[1]) = Len(y[2])
                       /\ t + SumTo(y[2], Len(y[2])) <= MaxTime } }

\* The engine is exercised on a root directory that holds one script path.
Globs(t) == GlobsOver(1, t)

\* Some entry of g is an error of glob or a file that does not open.
Skipped(g) == \E i \in 1..Len(g.entries) : g.entries[i].res = "Err" \/ ~g.entries[i].open

\* The clock after the reload.
EndOf(g, t) == IF g.entries = <<>> THEN t ELSE g.entries[Len(g.entries)].at

----------------------------------------------------------------------------
(* The tasks (main.rs 66-70) and the event bus (main.rs 62) *)

Tasks == {"tick", "mqtt", "processing"}

\* main and every task subscribe to the bus.
Subscribers == {"main"} \cup Tasks

\* The tasks as nobody has run yet.
Idle ==
    /\ bus = <<>>
    /\ backlog = [r \in Subscribers |-> 0]
    /\ pc = [r \in Subscribers |-> IF r = "main" THEN "loop"
                                   ELSE IF r = "tick" THEN "drain" ELSE "recv"]
    /\ tick_wake = 0
    /\ attempt = 0
    /\ joined = 0
    /\ watched = 0
    /\ exit_sent = FALSE
    /\ exhausted = FALSE
    /\ reloaded = FALSE
    /\ published = <<>>

----------------------------------------------------------------------------
(* The script engine on its own: polls and reloads at any instants *)

Init ==
    /\ \E g \in Globs(0) :
         /\ script = new(g, 0)
         /\ input = g
         /\ now = EndOf(g, 0)
    /\ batches = <<>>
    /\ load_cursor = 0
    /\ op = "new"
    /\ Idle

\* Time passes.
Advance ==
    /\ now < MaxTime
    /\ now' = now + 1
    /\ op' = "advance"
    /\ UNCHANGED <<script, batches, load_cursor, input, system>>

\* processing.rs: a Tick is handled.
Poll ==
    LET r == poll(script, now)
    IN  /\ script' = r.self
        /\ batches' = IF r.msgs = <<>> THEN batches ELSE Append(batches, r.msgs)
        /\ op' = "poll"
        /\ UNCHANGED <<now, load_cursor, input, system>>

\* processing.rs: a ReloadScript is handled.
Reload ==
    \E g \in Globs(now) :
        LET r == reload(script, g)
        IN  /\ script' = r.self
            /\ input' = g
            /\ now' = EndOf(g, now)
                /\ op' = IF ~r.ok THEN "reload_err"
                      ELSE IF Skipped(g) THEN "reload_skipped" ELSE "reload"
            /\ batches' = IF r.ok THEN <<>> ELSE batches
            /\ load_cursor' = IF r.ok THEN script.last_poll_time ELSE load_cursor
            /\ UNCHANGED system

Next == Advance \/ Poll \/ Reload

Spec == Init /\ [][Next]_vars

----------------------------------------------------------------------------
(* The poll cursor and the timeline *)

RECURSIVE Flatten(_)
Flatten(ss) == IF ss = <<>> THEN <<>> ELSE Head(ss) \o Flatten(Tail(ss))

\* Every message the polls returned since the timeline was loaded, in the
\* order returned.
Returned == Flatten(batches)

Time(m) == m.timestamp.v

Ascending(s) == \A i, j \in 1..Len(s) : i < j => Time(s[i]) <= Time(s[j])

\* The places of the timeline whose message lies in (a, b].
Within(msgs, a, b) == { k \in 1..Len(msgs) : a < Time(msgs[k]) /\ Time(msgs[k]) <= b }

\* What the step's poll returned.
Result == IF Len(batches') > Len(batches) THEN batches'[Len(batches')] ELSE <<>>

\* The latest timestamp of the timeline has been polled.
PolledToEnd ==
    /\ op = "poll"
    /\ \A k \in 1..Len(script.messages) : Time(script.messages[k]) <= script.last_poll_time

\* C1: a poll at the instant now returns exactly the messages of the timeline
\* whose timestamp lies in (last_poll_time, now], each once, in ascending
\* order of timestamp, and leaves last_poll_time equal to now; a message that
\* is not yet due is not returned.
C1_PollWindow ==
    [][op' = "poll" =>
         /\ \A i \in 1..Len(Result) :
              \E k \in Within(script.messages, script.last_poll_time, now) :
                  Result[i] = script.messages[k]
         /\ \A k \in Within(script.messages, script.last_poll_time, now) :
              \E i \in 1..Len(Result) : Result[i] = script.messages[k]
         /\ Len(Result) = Cardinality(Within(script.messages, script.last_poll_time, now))
         /\ Ascending(Result)
         /\ \A i \in 1..Len(Result) : Time(Result[i]) <= now
         /\ script'.last_poll_time = now]_vars

\* A poll returned two messages while a later message of the timeline is not yet due.
C1_Witness ==
    /\ op = "poll"
    /\ batches # <<>>
    /\ Len(batches[Len(batches)]) >= 2
    /\ \E k \in 1..Len(script.messages) : Time(script.messages[k]) > now

\* C2: on one timeline no message is returned twice, by the same poll or by
\* two polls.
C2_AtMostOnce ==
    \A i, j \in 1..Len(Returned) : i # j => Returned[i] # Returned[j]

\* Three polls of one timeline returned messages.
C2_Witness == Len(batches) >= 3

\* C3 as stated: once the latest timestamp has been polled, the polls have
\* returned the whole timeline, in its order.
C3_WholeTimeline == PolledToEnd => Returned = script.messages

\* C3 amended: once the latest timestamp has been polled, the polls have
\* returned, in ascending order of timestamp, exactly the messages of the
\* timeline that are later than last_poll_time was when the timeline was
\* loaded.
C3_TimelineAfterCursor ==
    PolledToEnd =>
        /\ Returned = SelectSeq(script.messages, LAMBDA m : Time(m) > load_cursor)
        /\ Ascending(Returned)

\* The whole of a timeline of three messages was returned by two polls or more,
\* and one message of it was at or before the cursor at the load.
C3_Witness ==
    /\ PolledToEnd
    /\ Len(script.messages) >= 3
    /\ Len(batches) >= 2
    /\ \E k \in 1..Len(script.messages) : Time(script.messages[k]) <= load_cursor

\* C4: a message of the loaded timeline whose timestamp is at or before the
\* value last_poll_time had at the load is returned by no poll.
C4_CursorSurvivesReload ==
    \A i \in 1..Len(Returned) : Time(Returned[i]) > load_cursor

\* After a reload at a cursor past 0, the timeline holds a message at or
\* before the cursor and a poll has returned a later one.
C4_Witness ==
    /\ load_cursor > 0
    /\ op = "poll"
    /\ batches # <<>>
    /\ \E k \in 1..Len(script.messages) : Time(script.messages[k]) <= load_cursor

\* C5: last_poll_time never decreases, and a reload, whether it succeeds or
\* fails, leaves it as it was.
C5_CursorMonotone ==
    [][/\ script'.last_poll_time >= script.last_poll_time
       /\ op' \in {"reload", "reload_skipped", "reload_err"} =>
            script'.last_poll_time = script.last_poll_time]_vars

\* A reload has replaced the timeline after the cursor had moved.
C5_Witness ==
    /\ op \in {"reload", "reload_skipped"}
    /\ script.last_poll_time > 0
    /\ script.messages # <<>>

\* C6 as stated: a reload that meets an unreadable entry or a file that does
\* not open, or that returns an error, leaves the timeline as it was.
C6_ErrorKeepsTimeline ==
    [][op' \in {"reload_err", "reload_skipped"} => script'.messages = script.messages]_vars

\* C6 amended: a reload that returns an error leaves the Script, timeline and
\* cursor, as it was.
C6_FailedReloadKeepsTimeline ==
    [][op' = "reload_err" => script' = script]_vars

\* A reload returned an error while the timeline held messages.
C6_Witness == op = "reload_err" /\ script.messages # <<>>

----------------------------------------------------------------------------
(* The event bus: tokio::sync::broadcast (main.rs 62) *)

\* The events the channel holds for a subscriber that does not receive.  The
\* channel of main.rs 62 holds 16; the model's holds Capacity.
Capacity == 3

\* try_reconnect's attempts (mqtt.rs 58).
MaxAttempts == 10

\* The events the file watcher sends in one run.
MaxWatch == 1

\* Event (main.rs 41-47).
Event(type) == [type |-> type, msg |-> <<>>]

SendMessage(m) == [type |-> "SendMessage", msg |-> <<m>>]

\* A subscriber whose receiver is still read: main reads its own until it
\* leaves its loop, a task until it returns.
Receiving(r, p) == IF r = "main" THEN p[r] = "loop" ELSE p[r] # "done"

\* Sender::send on the channel chan = [bus, backlog]: the event is stored, the
\* oldest one is overwritten when the channel is full, and a subscriber that
\* had Capacity events to receive has lost one (Capacity + 1 stands for "more
\* than Capacity").
send(chan, e) ==
    [bus |-> IF Len(chan.bus) < Capacity THEN Append(chan.bus, e)
             ELSE Append(Tail(chan.bus), e),
     backlog |-> [r \in Subscribers |->
                    IF chan.backlog[r] > Capacity THEN Capacity + 1
                    ELSE chan.backlog[r] + 1]]

RECURSIVE send_all(_, _)
\* processing.rs 23-28: one SendMessage for each message of the poll, in order.
send_all(chan, msgs) ==
    IF msgs = <<>> THEN chan
    ELSE send_all(send(chan, SendMessage(Head(msgs))), Tail(msgs))

\* A receiver that hands out the newest event of the channel, not the oldest
\* one it has not received.
recv_newest(r) ==
    IF backlog[r] > Capacity
    THEN [ok |-> FALSE, event |-> Event("Lagged"),
          chan |-> [bus |-> bus, backlog |-> [backlog EXCEPT ![r] = Capacity]]]
    ELSE [ok |-> TRUE, event |-> bus[Len(bus)],
          chan |-> [bus |-> bus, backlog |-> [backlog EXCEPT ![r] = @ - 1]]]

\* Receiver::recv and try_recv of subscriber r, which has events to receive:
\* Err(Lagged) when events it had not received were overwritten, and it goes
\* on from the oldest event the channel holds; else the next event.
recv(r) ==
    IF backlog[r] > Capacity
    THEN [ok |-> FALSE, event |-> Event("Lagged"),
          chan |-> [bus |-> bus, backlog |-> [backlog EXCEPT ![r] = Capacity]]]
    ELSE [ok |-> TRUE, event |-> bus[Len(bus) - backlog[r] + 1],
          chan |-> [bus |-> bus, backlog |-> [backlog EXCEPT ![r] = @ - 1]]]

\* The channel and the tasks after a step: a receiver that is read no more
\* holds nothing.
Becomes(chan, p) ==
    /\ pc' = p
    /\ bus' = chan.bus
    /\ backlog' = [r \in Subscribers |-> IF Receiving(r, p) THEN chan.backlog[r] ELSE 0]

\* A sleep that began a second before `wake` is over; past MaxTime the clock
\* is not followed and a sleep ends.
Elapsed(wake) == now >= wake \/ now = MaxTime

\* main, the tick task and the processing task handle an event in far less
\* than a second: no second passes while one of them has something to do.
\* The publisher may be held up by the broker for any time.
Prompt ==
    /\ backlog["main"] = 0
    /\ backlog["processing"] = 0
    /\ pc["main"] # "terminate"
    /\ pc["tick"] # "drain"

----------------------------------------------------------------------------
(* The root directories of the whole program *)

\* A script of n rows, each a second after the one before (script.rs 274-281).
Chain(n) == [k \in 1..n |-> Row(3, Field("int", 1), 1, k)]

\* A script whose first n rows fall due in the same second, and one row a
\* second later.
Burst(n) ==
    [k \in 1..(n + 1) |-> Row(3, Field("int", IF k = 1 \/ k = n + 1 THEN 1 ELSE 0), 1, k)]

\* What glob yields at the instant t.
SysGlobs(t) ==
    { [pattern_ok |-> TRUE,
       entries |-> <<[res |-> "Ok", open |-> TRUE, rows |-> rows, at |-> t]>>]
      : rows \in {Chain(MaxRows), Burst(Capacity + 1)} }

----------------------------------------------------------------------------
(* main (main.rs 50-91) *)

\* main.rs 73-74, 77-79: ctrl-c ends the loop.
MainCtrlC ==
    /\ pc["main"] = "loop"
    /\ Becomes([bus |-> bus, backlog |-> backlog], [pc EXCEPT !["main"] = "terminate"])
    /\ op' = "task"
    /\ UNCHANGED <<now, script, batches, load_cursor, input, tick_wake, attempt,
                   joined, watched, exit_sent, exhausted, reloaded, published>>

\* main.rs 75: recv gives Ok(Exit).
MainRecvExit ==
    /\ pc["main"] = "loop"
    /\ backlog["main"] > 0
    /\ LET rcv == recv("main")
       IN  /\ rcv.ok /\ rcv.event.type = "Exit"
           /\ Becomes(rcv.chan, [pc EXCEPT !["main"] = "terminate"])
    /\ op' = "task"
    /\ UNCHANGED <<now, script, batches, load_cursor, input, tick_wake, attempt,
                   joined, watched, exit_sent, exhausted, reloaded, published>>

\* main.rs 75: recv gives another event, or Err(Lagged): the loop goes on.
MainRecvOther ==
    /\ pc["main"] = "loop"
    /\ backlog["main"] > 0
    /\ LET rcv == recv("main")
       IN  /\ ~(rcv.ok /\ rcv.event.type = "Exit")
           /\ Becomes(rcv.chan, pc)
    /\ op' = "task"
    /\ UNCHANGED <<now, script, batches, load_cursor, input, tick_wake, attempt,
                   joined, watched, exit_sent, exhausted, reloaded, published>>

\* main.rs 82-83: Exit is broadcast.
MainTerminate ==
    /\ pc["main"] = "terminate"
    /\ Becomes(send([bus |-> bus, backlog |-> backlog], Event("Exit")),
               [pc EXCEPT !["main"] = "join"])
    /\ exit_sent' = TRUE
    /\ op' = "task"
    /\ UNCHANGED <<now, script, batches, load_cursor, input, tick_wake, attempt,
                   joined, watched, exhausted, reloaded, published>>

\* main.rs 66-70: the handles in the order they are awaited.
Handles == <<"tick", "mqtt", "processing">>

\* main.rs 84-88: the next handle is awaited, and main returns after the last.
MainJoin ==
    /\ pc["main"] = "join"
    /\ pc[Handles[joined + 1]] = "done"
    /\ joined' = joined + 1
    /\ Becomes([bus |-> bus, backlog |-> backlog],
               [pc EXCEPT !["main"] = IF joined + 1 = Len(Handles) THEN "done" ELSE "join"])
    /\ op' = "task"
    /\ UNCHANGED <<now, script, batches, load_cursor, input, tick_wake, attempt,
                   watched, exit_sent, exhausted, reloaded, published>>

----------------------------------------------------------------------------
(* The tick task (tick.rs 5-21) *)

\* tick.rs 10-14: try_recv gives Exit.
TickExit ==
    /\ pc["tick"] = "drain"
    /\ backlog["tick"] > 0
    /\ LET rcv == recv("tick")
       IN  /\ rcv.ok /\ rcv.event.type = "Exit"
           /\ Becomes(rcv.chan, [pc EXCEPT !["tick"] = "done"])
    /\ op' = "task"
    /\ UNCHANGED <<now, script, batches, load_cursor, input, tick_wake, attempt,
                   joined, watched, exit_sent, exhausted, reloaded, published>>

\* tick.rs 10-15: try_recv gives another event, which is dropped.
TickSkip ==
    /\ pc["tick"] = "drain"
    /\ backlog["tick"] > 0
    /\ LET rcv == recv("tick")
       IN  /\ rcv.ok /\ rcv.event.type # "Exit"
           /\ Becomes(rcv.chan, pc)
    /\ op' = "task"
    /\ UNCHANGED <<now, script, batches, load_cursor, input, tick_wake, attempt,
                   joined, watched, exit_sent, exhausted, reloaded, published>>

\* tick.rs 10, 16-19: try_recv gives Err (nothing to receive, or Lagged), the
\* while loop ends, Tick is sent and the task sleeps for a second.
TickSend ==
    /\ pc["tick"] = "drain"
    /\ backlog["tick"] = 0 \/ backlog["tick"] > Capacity
    /\ LET chan == IF backlog["tick"] = 0 THEN [bus |-> bus, backlog |-> backlog]
                   ELSE recv("tick").chan
       IN  Becomes(send(chan, Event("Tick")), [pc EXCEPT !["tick"] = "sleep"])
    /\ tick_wake' = now + 1
    /\ op' = "task"
    /\ UNCHANGED <<now, script, batches, load_cursor, input, attempt,
                   joined, watched, exit_sent, exhausted, reloaded, published>>

\* tick.rs 19: the sleep is over.
TickWake ==
    /\ pc["tick"] = "sleep"
    /\ Elapsed(tick_wake)
    /\ Prompt
    /\ Becomes([bus |-> bus, backlog |-> backlog], [pc EXCEPT !["tick"] = "drain"])
    /\ tick_wake' = 0
    /\ op' = "task"
    /\ UNCHANGED <<now, script, batches, load_cursor, input, attempt,
                   joined, watched, exit_sent, exhausted, reloaded, published>>

----------------------------------------------------------------------------
(* The processing task (processing.rs 5-34) *)

\* processing.rs 11: recv gives Err(Lagged) and the while loop ends.
ProcLagged ==
    /\ pc["processing"] = "recv"
    /\ backlog["processing"] > 0
    /\ LET rcv == recv("processing")
       IN  /\ ~rcv.ok
           /\ Becomes(rcv.chan, [pc EXCEPT !["processing"] = "done"])
    /\ op' = "task"
    /\ UNCHANGED <<now, script, batches, load_cursor, input, tick_wake, attempt,
                   joined, watched, exit_sent, exhausted, reloaded, published>>

\* processing.rs 13-16: Exit.
ProcExit ==
    /\ pc["processing"] = "recv"
    /\ backlog["processing"] > 0
    /\ LET rcv == recv("processing")
       IN  /\ rcv.ok /\ rcv.event.type = "Exit"
           /\ Becomes(rcv.chan, [pc EXCEPT !["processing"] = "done"])
    /\ op' = "task"
    /\ UNCHANGED <<now, script, batches, load_cursor, input, tick_wake, attempt,
                   joined, watched, exit_sent, exhausted, reloaded, published>>

\* processing.rs 17-21: ReloadScript.
ProcReload ==
    /\ pc["processing"] = "recv"
    /\ backlog["processing"] > 0
    /\ LET rcv == recv("processing")
       IN  /\ rcv.ok /\ rcv.event.type = "ReloadScript"
           /\ Becomes(rcv.chan, pc)
    /\ \E g \in SysGlobs(now) :
         LET r == reload(script, g)
         IN  /\ script' = r.self
             /\ input' = g
             /\ now' = EndOf(g, now)
             /\ batches' = IF r.ok THEN <<>> ELSE batches
             /\ load_cursor' = IF r.ok THEN script.last_poll_time ELSE load_cursor
    /\ reloaded' = TRUE
    /\ op' = "task"
    /\ UNCHANGED <<tick_wake, attempt, joined, watched, exit_sent, exhausted, published>>

\* processing.rs 22-29: Tick: every message of the poll is sent.
ProcTick ==
    /\ pc["processing"] = "recv"
    /\ backlog["processing"] > 0
    /\ LET rcv == recv("processing")
           r == poll(script, now)
       IN  /\ rcv.ok /\ rcv.event.type = "Tick"
           /\ script' = r.self
           /\ batches' = IF r.msgs = <<>> THEN batches ELSE Append(batches, r.msgs)
           /\ Becomes(send_all(rcv.chan, r.msgs), pc)
    /\ op' = "task"
    /\ UNCHANGED <<now, load_cursor, input, tick_wake, attempt,
                   joined, watched, exit_sent, exhausted, reloaded, published>>

\* processing.rs 30: any other event.
ProcOther ==
    /\ pc["processing"] = "recv"
    /\ backlog["processing"] > 0
    /\ LET rcv == recv("processing")
       IN  /\ rcv.ok /\ rcv.event.type = "SendMessage"
           /\ Becomes(rcv.chan, pc)
    /\ op' = "task"
    /\ UNCHANGED <<now, script, batches, load_cursor, input, tick_wake, attempt,
                   joined, watched, exit_sent, exhausted, reloaded, published>>

----------------------------------------------------------------------------
(* The publisher (mqtt.rs 7-72) *)

\* mqtt.rs 29: recv gives Err(Lagged) and the while loop ends.
MqttLagged ==
    /\ pc["mqtt"] = "recv"
    /\ backlog["mqtt"] > 0
    /\ LET rcv == recv("mqtt")
       IN  /\ ~rcv.ok
           /\ Becomes(rcv.chan, [pc EXCEPT !["mqtt"] = "done"])
    /\ op' = "task"
    /\ UNCHANGED <<now, script, batches, load_cursor, input, tick_wake, attempt,
                   joined, watched, exit_sent, exhausted, reloaded, published>>

\* mqtt.rs 31-34: Exit.
MqttExit ==
    /\ pc["mqtt"] = "recv"
    /\ backlog["mqtt"] > 0
    /\ LET rcv == recv("mqtt")
       IN  /\ rcv.ok /\ rcv.event.type = "Exit"
           /\ Becomes(rcv.chan, [pc EXCEPT !["mqtt"] = "done"])
    /\ op' = "task"
    /\ UNCHANGED <<now, script, batches, load_cursor, input, tick_wake, attempt,
                   joined, watched, exit_sent, exhausted, reloaded, published>>

\* What try_publish and the wait for the delivery token can give.
Outcomes == {"delivered", "delivery_error", "queue_error"}

\* A publisher that keeps the event of a publish that could not be queued, and
\* receives it again after try_reconnect.
MqttPublish_keeps_failed(outcomes) ==
    /\ pc["mqtt"] = "recv"
    /\ backlog["mqtt"] > 0
    /\ LET rcv == recv("mqtt")
       IN  /\ rcv.ok /\ rcv.event.type = "SendMessage"
           /\ published' = published \o rcv.event.msg
           /\ \E outcome \in outcomes :
                /\ IF outcome = "queue_error"
                   THEN Becomes([bus |-> bus, backlog |-> backlog],
                                [pc EXCEPT !["mqtt"] = "reconnect"])
                   ELSE Becomes(rcv.chan, pc)
                /\ op' = outcome
    /\ attempt' = 0
    /\ UNCHANGED <<now, script, batches, load_cursor, input, tick_wake,
                   joined, watched, exit_sent, exhausted, reloaded>>

\* mqtt.rs 35-49: SendMessage, the broker answering with one of outcomes.  A
\* delivery that fails is logged; a publish that cannot be queued starts
\* try_reconnect.
MqttPublish(outcomes) ==
    /\ pc["mqtt"] = "recv"
    /\ backlog["mqtt"] > 0
    /\ LET rcv == recv("mqtt")
       IN  /\ rcv.ok /\ rcv.event.type = "SendMessage"
           /\ published' = published \o rcv.event.msg
           /\ \E outcome \in outcomes :
                /\ Becomes(rcv.chan, [pc EXCEPT !["mqtt"] =
                                        IF outcome = "queue_error" THEN "reconnect" ELSE "recv"])
                /\ op' = outcome
    /\ attempt' = 0
    /\ UNCHANGED <<now, script, batches, load_cursor, input, tick_wake,
                   joined, watched, exit_sent, exhausted, reloaded>>

\* mqtt.rs 51: any other event.
MqttOther ==
    /\ pc["mqtt"] = "recv"
    /\ backlog["mqtt"] > 0
    /\ LET rcv == recv("mqtt")
       IN  /\ rcv.ok /\ rcv.event.type \in {"Tick", "ReloadScript"}
           /\ Becomes(rcv.chan, pc)
    /\ op' = "task"
    /\ UNCHANGED <<now, script, batches, load_cursor, input, tick_wake, attempt,
                   joined, watched, exit_sent, exhausted, reloaded, published>>

\* mqtt.rs 58-69: one turn of try_reconnect's loop, the broker answering with
\* one of answers: the reconnection succeeds and try_reconnect returns Ok, or
\* it fails and the task sleeps.  The publisher may stay away for any time at
\* any step, so the length of this sleep is not followed.
MqttReconnect(answers) ==
    /\ pc["mqtt"] = "reconnect"
    /\ attempt < MaxAttempts
    /\ \E connected \in answers :
         IF connected
         THEN /\ Becomes([bus |-> bus, backlog |-> backlog], [pc EXCEPT !["mqtt"] = "recv"])
              /\ attempt' = 0
              /\ op' = "reconnected"
         ELSE /\ Becomes([bus |-> bus, backlog |-> backlog], pc)
              /\ attempt' = attempt + 1
              /\ op' = "reconnect_failed"
    /\ UNCHANGED <<now, script, batches, load_cursor, input, tick_wake,
                   joined, watched, exit_sent, exhausted, reloaded, published>>

\* A publisher that gives up after the first attempt that fails.
MqttGiveUp_early ==
    /\ pc["mqtt"] = "reconnect"
    /\ attempt >= 1
    /\ Becomes(send([bus |-> bus, backlog |-> backlog], Event("Exit")),
               [pc EXCEPT !["mqtt"] = "recv"])
    /\ attempt' = 0
    /\ exit_sent' = TRUE
    /\ exhausted' = TRUE
    /\ op' = "gave_up"
    /\ UNCHANGED <<now, script, batches, load_cursor, input, tick_wake,
                   joined, watched, reloaded, published>>

\* mqtt.rs 71, 44-47: the loop is over, try_reconnect returns Err and Exit is
\* broadcast; the while loop of the task goes on.
MqttGiveUp ==
    /\ pc["mqtt"] = "reconnect"
    /\ attempt = MaxAttempts
    /\ Becomes(send([bus |-> bus, backlog |-> backlog], Event("Exit")),
               [pc EXCEPT !["mqtt"] = "recv"])
    /\ attempt' = 0
    /\ exit_sent' = TRUE
    /\ exhausted' = TRUE
    /\ op' = "gave_up"
    /\ UNCHANGED <<now, script, batches, load_cursor, input, tick_wake,
                   joined, watched, reloaded, published>>

----------------------------------------------------------------------------
(* The file watcher (file_watch.rs 11-45) and the clock *)

\* file_watch.rs 31-37: a script file changed and ReloadScript is sent.
Watch ==
    /\ watched < MaxWatch
    /\ pc["main"] # "done"
    /\ watched' = watched + 1
    /\ Becomes(send([bus |-> bus, backlog |-> backlog], Event("ReloadScript")), pc)
    /\ op' = "task"
    /\ UNCHANGED <<now, script, batches, load_cursor, input, tick_wake, attempt,
                   joined, exit_sent, exhausted, reloaded, published>>

\* A second passes.
Tock ==
    /\ Prompt
    /\ now < MaxTime
    /\ now' = now + 1
    /\ op' = "task"
    /\ UNCHANGED <<script, batches, load_cursor, input, system>>

----------------------------------------------------------------------------
(* The whole program *)

SysInit ==
    /\ now = 0
    /\ \E g \in SysGlobs(0) : script = new(g, 0) /\ input = g
    /\ batches = <<>>
    /\ load_cursor = 0
    /\ op = "task"
    /\ Idle

MainStep == MainRecvExit \/ MainRecvOther \/ MainTerminate \/ MainJoin

TickStep == TickExit \/ TickSkip \/ TickSend \/ TickWake

ProcStep == ProcLagged \/ ProcExit \/ ProcReload \/ ProcTick \/ ProcOther

MqttStep ==
    \/ MqttLagged \/ MqttExit \/ MqttPublish(Outcomes) \/ MqttOther
    \/ MqttReconnect(BOOLEAN) \/ MqttGiveUp

SysNext == MainCtrlC \/ MainStep \/ TickStep \/ ProcStep \/ MqttStep \/ Watch \/ Tock

SysSpec == SysInit /\ [][SysNext]_vars

----------------------------------------------------------------------------
(* The program while the broker takes every publish and no script changes *)

\* Only main sends Exit here, and it has left its loop by then.
QuietMainStep == MainRecvOther \/ MainTerminate \/ MainJoin

QuietProcStep == ProcLagged \/ ProcExit \/ ProcTick \/ ProcOther

QuietMqttStep == MqttLagged \/ MqttExit \/ MqttPublish({"delivered"}) \/ MqttOther

QuietNext == MainCtrlC \/ QuietMainStep \/ TickStep \/ QuietProcStep \/ QuietMqttStep \/ Tock

\* The runtime runs every task that can take a step, and time passes.
QuietSpec ==
    /\ SysInit /\ [][QuietNext]_vars
    /\ WF_vars(QuietMainStep)
    /\ WF_vars(TickStep)
    /\ WF_vars(QuietProcStep)
    /\ WF_vars(QuietMqttStep)
    /\ WF_vars(Tock)

----------------------------------------------------------------------------
(* The program while the broker is out of reach and no script changes *)

OutageMqttStep ==
    \/ MqttLagged \/ MqttExit \/ MqttPublish({"queue_error"}) \/ MqttOther
    \/ MqttReconnect({FALSE}) \/ MqttGiveUp

OutageNext == MainStep \/ TickStep \/ QuietProcStep \/ OutageMqttStep \/ Tock

OutageSpec ==
    /\ SysInit /\ [][OutageNext]_vars
    /\ WF_vars(MainStep)
    /\ WF_vars(TickStep)
    /\ WF_vars(QuietProcStep)
    /\ WF_vars(OutageMqttStep)
    /\ WF_vars(Tock)

----------------------------------------------------------------------------
(* The program on a fixed timeline, left to run: the broker answers as it *)
(* likes, no script changes and nobody interrupts                         *)

SteadyNext == MainStep \/ TickStep \/ QuietProcStep \/ MqttStep \/ Tock

SteadySpec == SysInit /\ [][SteadyNext]_vars

----------------------------------------------------------------------------
(* Lag and shutdown *)

\* Every task has returned.
TasksDone == \A t \in Tasks : pc[t] = "done"

\* The polls have returned, each once and in order, every message of the
\* timeline that was later than the cursor at the load.
AllDueSent == Returned = SelectSeq(script.messages, LAMBDA m : Time(m) > load_cursor)

\* C7 as stated: lag stops no task; a task returns only after an Exit has been
\* broadcast.
C7_LagStopsNoTask == \A t \in Tasks : pc[t] = "done" => exit_sent

\* C8 as stated: while no reload is asked for and no Exit is broadcast, every
\* message later than the cursor at the load is in the end broadcast as a
\* SendMessage, once, and none before its timestamp.
C8_EveryDueMessageBroadcast ==
    /\ [](\A i \in 1..Len(Returned) : Time(Returned[i]) <= now)
    /\ []C2_AtMostOnce
    /\ <>(exit_sent \/ watched > 0 \/ AllDueSent)

\* C9 as stated: once a reconnect sequence has run out of attempts (and Exit
\* has been broadcast by the publisher), main leaves its loop and every task
\* returns.
C9_ExhaustionShutsDown == exhausted ~> (pc["main"] # "loop" /\ TasksDone)

\* C10 as stated: once an Exit has been broadcast, every task returns and main
\* has awaited every handle.
C10_ExitTerminatesAll == exit_sent ~> (TasksDone /\ pc["main"] = "done")

----------------------------------------------------------------------------
(* The publisher: failures, reconnect sequences and the order of publishes *)

\* The step is an attempt to publish / an attempt to reconnect.
PublishAttempt == op' \in Outcomes

ReconnectAttempt == op' \in {"reconnected", "reconnect_failed"}

\* C11 as stated: a publish that fails, because it cannot be queued or because
\* the delivery of the queued publish reports an error, starts a reconnect
\* sequence.
C11_FailureStartsReconnect ==
    [][op' \in {"queue_error", "delivery_error"} => pc'["mqtt"] = "reconnect"]_vars

\* C12: a reconnect sequence makes at most MaxAttempts attempts; an attempt
\* that succeeds ends the sequence and sends nothing; an attempt that fails
\* sends nothing either; the publisher broadcasts Exit exactly when it leaves
\* a sequence whose MaxAttempts attempts have all failed.
C12_BoundedReconnect ==
    [][/\ attempt' <= MaxAttempts
       /\ ReconnectAttempt => (attempt < MaxAttempts /\ bus' = bus /\ exit_sent' = exit_sent)
       /\ op' = "reconnected" => (pc'["mqtt"] = "recv" /\ attempt' = 0)
       /\ op' = "reconnect_failed" => (pc'["mqtt"] = "reconnect" /\ attempt' = attempt + 1)
       /\ op' = "gave_up" <=>
             (pc["mqtt"] = "reconnect" /\ attempt = MaxAttempts /\ pc'["mqtt"] # "reconnect")
       /\ op' = "gave_up" => (bus'[Len(bus')] = Event("Exit") /\ exit_sent')]_vars

\* A sequence has run out of attempts and the publisher has just broadcast Exit.
C12_Witness == op = "gave_up" /\ bus[Len(bus)] = Event("Exit")

\* C13 as stated: the publisher that has reconnected is still running at its
\* next receive, whatever accumulated on its subscription meanwhile: it
\* returns only on an Exit.
C13_ResumesAfterReconnect ==
    [][(op = "reconnected" /\ pc'["mqtt"] = "done")
         => (recv("mqtt").ok /\ recv("mqtt").event.type = "Exit")]_vars

\* C14: no message is handed to try_publish twice.
C14_AtMostOnePublish ==
    \A i, j \in 1..Len(published) : i # j => published[i] # published[j]

\* After a sequence that ran out of attempts, and so after a publish that
\* failed, the publisher has published another message.
C14_Witness == exhausted /\ op \in Outcomes /\ Len(published) >= 2

RECURSIVE IsSubsequence(_, _)
\* s is t with some elements left out.
IsSubsequence(s, t) ==
    IF s = <<>> THEN TRUE
    ELSE IF t = <<>> THEN FALSE
    ELSE IF Head(s) = Head(t) THEN IsSubsequence(Tail(s), Tail(t))
    ELSE IsSubsequence(s, Tail(t))

\* C19: on a fixed timeline the SendMessage events are broadcast in
\* non-decreasing order of timestamp, and the messages published are a
\* subsequence of the messages broadcast.
C19_PublishOrder ==
    ~reloaded => (Ascending(Returned) /\ IsSubsequence(published, Returned))

\* Two messages of different timestamps have been published, and a message
\* broadcast before the second was not.
C19_Witness ==
    /\ ~reloaded
    /\ Len(published) >= 2
    /\ Time(published[1]) < Time(published[Len(published)])
    /\ Len(published) < Len(Returned)

\* C20 as stated: once the publisher has broadcast Exit, it attempts no
\* publish and no reconnect.
C20_NothingAfterOwnExit ==
    [][exhausted => ~(PublishAttempt \/ ReconnectAttempt)]_vars

----------------------------------------------------------------------------
(* The loader on its own: Script::new over a root directory of two paths *)

\* The timestamp fields the rows are written with: a date, a number of
\* seconds, and text that is neither.
LoadFields ==
    { Field("rfc3339", 1), Field("int", 1), Field("text", 0) }

\* A row is written with three fields, or with two.
LoadRowKinds ==
    { [cols |-> 3, ts |-> f] : f \in LoadFields } \cup { [cols |-> 2, ts |-> Field("int", 1)] }

\* The contents of script file f with up to n rows.
LoadRows(f, n) ==
    UNION { { [k \in 1..m |-> Row(rk[k].cols, rk[k].ts, f, k)] : rk \in [1..m -> LoadRowKinds] }
            : m \in 0..n }

\* What glob yields for path f.
LoadEntries(f, n) ==
    { [res |-> "Err", open |-> FALSE, rows |-> <<>>],
      [res |-> "Ok", open |-> FALSE, rows |-> <<>>] }
    \cup { [res |-> "Ok", open |-> TRUE, rows |-> rows] : rows \in LoadRows(f, n) }

\* The root directories: no path, one, or two, the second a file of one row
\* at most.
LoadDirs ==
    { <<>> }
    \cup { <<a>> : a \in LoadEntries(1, MaxRows) }
    \cup { <<a, b>> : a \in LoadEntries(1, MaxRows), b \in LoadEntries(2, 1) }

\* The glob results of a reload that starts when the clock reads t.
LoadGlobs(t) ==
    { [pattern_ok |-> FALSE, entries |-> <<>>] }
    \cup { [pattern_ok |-> TRUE,
            entries |-> [i \in 1..Len(x[1]) |->
                           [res |-> x[1][i].res, open |-> x[1][i].open,
                            rows |-> x[1][i].rows, at |-> t + SumTo(x[2], i)]]]
           : x \in { y \in LoadDirs \X UNION { [1..k -> 0..MaxLoadDelay] : k \in 0..2 } :
                       /\ Len(y[1]) = Len(y[2])
                       /\ t + SumTo(y[2], Len(y[2])) <= MaxTime } }

\* Script::new (script.rs 145-150) before its reload; input is what glob is
\* about to find.
LoadInit ==
    /\ now \in 0..MaxTime
    /\ input \in LoadGlobs(now)
    /\ script = [messages |-> <<>>, last_poll_time |-> now]
    /\ batches = <<>>
    /\ load_cursor = now
    /\ op = "new"
    /\ Idle

\* Script::new's reload (script.rs 152).
Load ==
    /\ op = "new"
    /\ LET r == reload(script, input)
       IN  /\ script' = r.self
           /\ op' = IF r.ok THEN "loaded" ELSE "reload_err"
    /\ now' = EndOf(input, now)
    /\ UNCHANGED <<batches, load_cursor, input, system>>

LoadNext == Load

LoadSpec == LoadInit /\ [][LoadNext]_vars

\* The files of the input that were opened and read.
Opened == { f \in 1..Len(input.entries) : input.entries[f].res = "Ok" /\ input.entries[f].open }

\* Row i of file f is in the timeline, with the timestamp t.
LoadedAt(f, i, t) ==
    \E k \in 1..Len(script.messages) :
        script.messages[k] = [timestamp |-> Absolute(t), topic |-> f, message |-> i]

Loaded(f, i) ==
    \E k \in 1..Len(script.messages) :
        script.messages[k].topic = f /\ script.messages[k].message = i

\* a was encountered before b: files in the order glob yields them, rows in
\* the order of the file.
Before(a, b) == a.topic < b.topic \/ (a.topic = b.topic /\ a.message < b.message)

\* C15: after a reload the timeline is in ascending order of timestamp, and
\* messages of equal timestamp are in the order in which their rows were
\* encountered.
C15_StableSort ==
    op = "loaded" =>
        /\ Ascending(script.messages)
        /\ \A i, j \in 1..Len(script.messages) :
              (i < j /\ Time(script.messages[i]) = Time(script.messages[j]))
                 => Before(script.messages[i], script.messages[j])

\* The sort moved a message, and two messages of different files have the
\* same timestamp.
C15_Witness ==
    /\ op = "loaded"
    /\ script.messages # LoadAll(input.entries, 1)
    /\ \E i, j \in 1..Len(script.messages) :
          /\ i < j
          /\ Time(script.messages[i]) = Time(script.messages[j])
          /\ script.messages[i].topic # script.messages[j].topic

RECURSIVE Reference(_, _, _)
RECURSIVE Resolved(_, _, _)
\* The reference instant in front of row i of a file whose reference instant
\* starts at T0: the instant of the last row before i that was not dropped.
Reference(rows, i, T0) ==
    IF i = 1 THEN T0
    ELSE IF Deserializes(rows, i - 1) THEN Resolved(rows, i - 1, T0)
    ELSE Reference(rows, i - 1, T0)

\* The instant of row i: t for Absolute(t), the reference instant plus d for
\* Relative(d).
Resolved(rows, i, T0) ==
    LET ts == from_str(rows[i].ts).t
    IN  IF ts.kind = "Absolute" THEN ts.v ELSE Reference(rows, i, T0) + ts.v

\* C16: every message of the timeline has an Absolute timestamp, and every row
\* that the loader keeps is in the timeline with the instant the chain of its
\* file gives it, the reference instant of the file starting at the instant
\* the file is loaded.
C16_RelativeChain ==
    op = "loaded" =>
        /\ \A k \in 1..Len(script.messages) : script.messages[k].timestamp.kind = "Absolute"
        /\ \A f \in Opened :
              LET e == input.entries[f]
              IN  \A i \in 1..Len(e.rows) :
                      Deserializes(e.rows, i) => LoadedAt(f, i, Resolved(e.rows, i, e.at))

\* A file of an Absolute row and two Relative rows behind it was loaded at an
\* instant that is not the Absolute row's.
C16_Witness ==
    /\ op = "loaded"
    /\ \E f \in Opened :
          LET e == input.entries[f]
          IN  /\ Len(e.rows) = 3
              /\ \A i \in 1..3 : Deserializes(e.rows, i)
              /\ from_str(e.rows[1].ts).t = Absolute(1)
              /\ from_str(e.rows[2].ts).t.kind = "Relative"
              /\ from_str(e.rows[3].ts).t.kind = "Relative"
              /\ e.at # 1
              /\ LoadedAt(f, 3, 3)

\* The row is well formed: three fields and a timestamp that can be read.
WellFormed(row) == row.cols = 3 /\ from_str(row.ts).ok

\* C17 as stated: the timeline holds exactly the well-formed rows of the files
\* that were read.
C17_ValidRowsLoaded ==
    op = "loaded" =>
        \A f \in Opened :
            \A i \in 1..Len(input.entries[f].rows) :
                Loaded(f, i) <=> WellFormed(input.entries[f].rows[i])

\* C18 as stated: a leading Relative(d) row of any file is in the timeline at
\* the instant the reload started plus d.
C18_SameReference ==
    op = "loaded" =>
        \A f \in Opened :
            LET e == input.entries[f]
            IN  (/\ e.rows # <<>>
                 /\ Deserializes(e.rows, 1)
                 /\ from_str(e.rows[1].ts).t.kind = "Relative")
                    => LoadedAt(f, 1, load_cursor + from_str(e.rows[1].ts).t.v)

====
